---- MODULE Spec2Model ----
(***************************************************************************)
(* Model of the stream archiver (src/app/main.py, src/app/plugins/kick.py) *)
(* : construction of StreamArchiver from the environment, and the run loop *)
(* that probes every monitored channel and starts / stops one streamlink   *)
(* process per channel.                                                    *)
(*                                                                         *)
(* Strings that the code parses (environment variables) are sequences of   *)
(* one-character strings.  A dict is a function whose DOMAIN is the set of *)
(* keys present.                                                           *)
(***************************************************************************)
EXTENDS Integers, Sequences, FiniteSets, TLC

\* ------------------------------------------------------------------ bounds
MaxTicks == 3
MaxLen == 3
\* titles: every title up to MaxTitle characters, and titles of up to
\* TITLE_LIMIT + MaxOver characters
MaxTitle == 2
MaxOver == 10

\* ------------------------------------------------------- program constants
check_interval == 30
ERROR_BACKOFF == 5
TITLE_LIMIT == 200

None == "None"

VARIABLES
    env,               \* os.environ: the five variables the constructor reads
    platforms,         \* self.platforms, in dict insertion order
    pc,                \* position of the program (constructor, run loop)
    idx,               \* position of check_stream_status in the channel list
    tick,              \* number of the current tick
    probe,             \* result of the last is_stream_live call
    active_downloads,  \* self.active_downloads: channel_key -> process
    proc,              \* the Process objects not yet passed to del, by pid
    startCalls,        \* channel_key -> _start_download calls in this tick
    terminateCalls,    \* channel_key -> terminate() calls in this tick
    logged,            \* the last logger.error of the loop
    hist,              \* channel_key -> what its last reconciliation saw and did
    slept,             \* duration of the last asyncio.sleep of run
    cancelled,         \* run was cancelled
    start_args,        \* one _start_download call: clock, platform, channel, title
    filename           \* the filename that call builds

vars == <<env, platforms, pc, idx, tick, probe, active_downloads, proc,
          startCalls, terminateCalls, logged, hist, slept, cancelled,
          start_args, filename>>

\* ------------------------------------------------------- python strings
Chars == {"a", ",", " "}

RECURSIVE StrsUpTo(_)
StrsUpTo(n) ==
    IF n = 0 THEN {<<>>}
    ELSE LET shorter == StrsUpTo(n - 1)
         IN  shorter \cup {Append(s, c) : s \in {t \in shorter : Len(t) = n - 1}, c \in Chars}

\* an environment variable: unset, or set to a string
Unset == [set |-> FALSE, val |-> <<>>]

Str(s) == [set |-> TRUE, val |-> s]

\* truthiness of os.getenv(name): None and "" are falsy
Truthy(v) == v.set /\ v.val # <<>>

RECURSIVE split(_, _)
split(s, sep) ==
    IF \E i \in 1..Len(s) : s[i] = sep
    THEN LET i == CHOOSE j \in 1..Len(s) :
                      s[j] = sep /\ \A m \in 1..(j - 1) : s[m] # sep
         IN  <<SubSeq(s, 1, i - 1)>> \o split(SubSeq(s, i + 1, Len(s)), sep)
    ELSE <<s>>

RECURSIVE lstrip(_)
lstrip(s) == IF s # <<>> /\ Head(s) = " " THEN lstrip(Tail(s)) ELSE s

RECURSIVE rstrip(_)
rstrip(s) ==
    IF s # <<>> /\ s[Len(s)] = " " THEN rstrip(SubSeq(s, 1, Len(s) - 1)) ELSE s

strip(s) == rstrip(lstrip(s))

startswith(s, prefix) ==
    Len(s) >= Len(prefix) /\ SubSeq(s, 1, Len(prefix)) = prefix

\* [ch.strip() for ch in channels if ch.strip()]
RECURSIVE StripNonEmpty(_)
StripNonEmpty(list) ==
    IF list = <<>> THEN <<>>
    ELSE IF strip(Head(list)) # <<>>
         THEN <<strip(Head(list))>> \o StripNonEmpty(Tail(list))
         ELSE StripNonEmpty(Tail(list))

OAUTH_PREFIX == <<"o", "a", "u", "t", "h", ":">>

\* ------------------------------------------------- construction (__init__)
\* os.getenv(name).split(",") if os.getenv(name) else []
ChannelList(v) == IF Truthy(v) THEN split(v.val, ",") ELSE <<>>

TwitchConfigured(e) ==
    /\ Truthy(e.TWITCH_CLIENT_ID)
    /\ Truthy(e.TWITCH_CLIENT_SECRET)
    /\ Truthy(e.TWITCH_OAUTH_TOKEN)
    /\ ChannelList(e.TWITCH_CHANNELS) # <<>>

KickConfigured(e) == ChannelList(e.KICK_CHANNELS) # <<>>

\* self.platforms: one entry per configured platform, twitch before kick
_initialize_platforms(e) ==
    (IF TwitchConfigured(e)
     THEN <<[name |-> "twitch",
             oauth_token |-> e.TWITCH_OAUTH_TOKEN.val,
             channels |-> StripNonEmpty(ChannelList(e.TWITCH_CHANNELS))]>>
     ELSE <<>>)
    \o
    (IF KickConfigured(e)
     THEN <<[name |-> "kick",
             oauth_token |-> <<>>,
             channels |-> StripNonEmpty(ChannelList(e.KICK_CHANNELS))]>>
     ELSE <<>>)

\* the outcome of _validate_config: "ok" or the ValueError it raises
_validate_config(ps) ==
    IF ps = <<>> THEN "error_no_platforms"
    ELSE IF \E i \in 1..Len(ps) :
                /\ ps[i].name = "twitch"
                /\ ~startswith(ps[i].oauth_token, OAUTH_PREFIX)
         THEN "error_oauth"
         ELSE "ok"

\* channel_key = f"{platform_name}:{channel}"
ChannelKey(platform_name, channel) == <<platform_name, ":">> \o channel

\* the (platform, channel) pairs check_stream_status visits, in its order
RECURSIVE Flatten(_)
Flatten(ps) ==
    IF ps = <<>> THEN <<>>
    ELSE [i \in 1..Len(Head(ps).channels) |->
              [platform_name |-> Head(ps).name, channel |-> Head(ps).channels[i]]]
         \o Flatten(Tail(ps))

Channels == Flatten(platforms)

KeysOf(ps) ==
    {ChannelKey(Flatten(ps)[i].platform_name, Flatten(ps)[i].channel) :
        i \in 1..Len(Flatten(ps))}

\* ---------------------------------------------------------------- probes
TitleSet == {"T1", "T2"}

\* a session_title of the JSON response that is not a string (a number)
NonStr == "NonStr"

NoStream == [kind |-> "none", title |-> None]

\* what the Twitch API does for one is_stream_live call
TwitchResponses ==
    {[kind |-> "exception", title |-> None],
     [kind |-> "no_user", title |-> None],
     [kind |-> "no_stream", title |-> None]}
    \cup {[kind |-> "stream", title |-> t] : t \in TitleSet}

\* what the Kick livestream endpoint does for one get_kick_stream_info call
KickResponses ==
    {[kind |-> "exception", title |-> None],
     [kind |-> "no_data", title |-> None],
     [kind |-> "no_playback_url", title |-> None]}
    \cup {[kind |-> "playback_url", title |-> t] : t \in TitleSet \cup {NonStr}}

\* variant: the except branch reports the stream as live
TwitchIsStreamLiveErrLive(r) ==
    IF r.kind = "exception"
    THEN [is_live |-> TRUE, stream_data |-> NoStream, log |-> "error"]
    ELSE IF r.kind = "no_user"
    THEN [is_live |-> FALSE, stream_data |-> NoStream, log |-> "warning"]
    ELSE IF r.kind = "no_stream"
    THEN [is_live |-> FALSE, stream_data |-> NoStream, log |-> "none"]
    ELSE [is_live |-> TRUE, stream_data |-> [kind |-> "stream", title |-> r.title],
          log |-> "none"]

\* variant: the 'if not user' check is missing, user.id raises on None and the
\* except branch reports a probe error
TwitchIsStreamLiveNoUserCheck(r) ==
    IF r.kind = "exception"
    THEN [is_live |-> FALSE, stream_data |-> NoStream, log |-> "error"]
    ELSE IF r.kind = "no_user"
    THEN [is_live |-> FALSE, stream_data |-> NoStream, log |-> "error"]
    ELSE IF r.kind = "no_stream"
    THEN [is_live |-> FALSE, stream_data |-> NoStream, log |-> "none"]
    ELSE [is_live |-> TRUE, stream_data |-> [kind |-> "stream", title |-> r.title],
          log |-> "none"]

\* TwitchPlatform.is_stream_live: (is_live, stream_data)
TwitchIsStreamLive(r) ==
    IF r.kind = "exception"
    THEN [is_live |-> FALSE, stream_data |-> NoStream, log |-> "error"]
    ELSE IF r.kind = "no_user"
    THEN [is_live |-> FALSE, stream_data |-> NoStream, log |-> "warning"]
    ELSE IF r.kind = "no_stream"
    THEN [is_live |-> FALSE, stream_data |-> NoStream, log |-> "none"]
    ELSE [is_live |-> TRUE, stream_data |-> [kind |-> "stream", title |-> r.title],
          log |-> "none"]

\* get_kick_stream_info: the dict it returns ({} is kind "empty")
get_kick_stream_info(r) ==
    IF r.kind = "exception" THEN [kind |-> "empty", is_live |-> FALSE, title |-> None]
    ELSE IF r.kind = "no_data" THEN [kind |-> "empty", is_live |-> FALSE, title |-> None]
    ELSE IF r.kind = "no_playback_url"
         THEN [kind |-> "dict", is_live |-> FALSE, title |-> None]
         ELSE [kind |-> "dict", is_live |-> TRUE, title |-> r.title]

\* KickPlatform.is_stream_live: (is_live, stream_data)
KickIsStreamLive(r) ==
    LET stream_info == get_kick_stream_info(r)
    IN  IF stream_info.kind # "empty" /\ stream_info.is_live
        THEN [is_live |-> TRUE,
              stream_data |-> [kind |-> "dict", title |-> stream_info.title],
              log |-> "none"]
        ELSE [is_live |-> FALSE, stream_data |-> NoStream, log |-> "none"]

Responses(platform_name) ==
    IF platform_name = "twitch" THEN TwitchResponses ELSE KickResponses

is_stream_live(platform_name, r) ==
    IF platform_name = "twitch" THEN TwitchIsStreamLive(r) ELSE KickIsStreamLive(r)

\* the probe failed: the platform query raised
ProbeFailed(r) == r.kind = "exception"

\* TwitchPlatform.get_stream_title / KickPlatform.get_stream_title
get_stream_title(platform_name, stream_data) ==
    IF platform_name = "twitch"
    THEN IF stream_data.kind = "stream" THEN stream_data.title ELSE "Live Stream"
    ELSE IF stream_data.kind = "dict" THEN stream_data.title ELSE "Kick Live Stream"

\* the string literals of the filename code
UNKNOWN_TITLE == <<"U", "n", "k", "n", "o", "w", "n", " ", "T", "i", "t", "l", "e">>
LIVE_STREAM == <<"L", "i", "v", "e", " ", "S", "t", "r", "e", "a", "m">>
KICK_LIVE_STREAM == <<"K", "i", "c", "k", " ", "L", "i", "v", "e", " ", "S", "t", "r", "e", "a", "m">>
KICK_STREAM_PREFIX == <<"K", "i", "c", "k", " ", "S", "t", "r", "e", "a", "m", " ", "-", " ">>
MP4 == <<".", "m", "p", "4">>

\* -------------------------------------------------------------- filenames
\* a JSON / attribute value: a str, None, a number, or a key that is absent
StrVal(s) == [type |-> "str", val |-> s]
NoneVal == [type |-> "None", val |-> <<>>]
IntVal == [type |-> "int", val |-> <<>>]
Absent == [type |-> "absent", val |-> <<>>]

\* bool(v) of Python for these values (the number is not 0)
IsTruthy(v) == v.type = "int" \/ (v.type = "str" /\ v.val # <<>>)

Digits == <<"0", "1", "2", "3", "4", "5", "6", "7", "8", "9">>

\* %m, %d, %H, %M: two digits, zero padded
Pad2(n) == <<Digits[(n \div 10) + 1], Digits[(n % 10) + 1]>>

\* %Y: four digits
Pad4(n) == Pad2(n \div 100) \o Pad2(n % 100)

\* datetime.now().strftime("%Y-%m-%d %H:%M")
strftime(now) ==
    Pad4(now.year) \o <<"-">> \o Pad2(now.month) \o <<"-">> \o Pad2(now.day)
    \o <<" ">> \o Pad2(now.hour) \o <<":">> \o Pad2(now.minute)

\* str.replace(old, new) for one-character old and new
replace(s, old, new) == [i \in 1..Len(s) |-> IF s[i] = old THEN new ELSE s[i]]

\* s[:n]
Slice(s, n) == IF Len(s) <= n THEN s ELSE SubSeq(s, 1, n)

\* result["session_title"] = stream_data.get("session_title",
\*                                           f"Kick Stream - {channel}")
session_title(channel, json_title) ==
    IF json_title.type = "absent"
    THEN StrVal(KICK_STREAM_PREFIX \o channel)
    ELSE json_title

\* the stream_data is_stream_live hands to _start_download for a live stream:
\* the Stream object of the Twitch API, the dict of get_kick_stream_info
StreamData(platform_name, channel, api_title) ==
    IF platform_name = "twitch"
    THEN [title |-> api_title]
    ELSE [is_live |-> TRUE, channel |-> channel,
          session_title |-> session_title(channel, api_title),
          playback_url |-> "url"]

\* TwitchPlatform.get_stream_title
TwitchGetStreamTitle(stream_data) ==
    IF "title" \in DOMAIN stream_data
    THEN stream_data.title
    ELSE StrVal(LIVE_STREAM)

\* KickPlatform.get_stream_title
KickGetStreamTitle(stream_data) ==
    IF "session_title" \in DOMAIN stream_data
    THEN stream_data.session_title
    ELSE StrVal(KICK_LIVE_STREAM)

GetStreamTitle(platform_name, stream_data) ==
    IF platform_name = "twitch"
    THEN TwitchGetStreamTitle(stream_data)
    ELSE KickGetStreamTitle(stream_data)

get_platform_shortname(platform_name) ==
    IF platform_name = "twitch" THEN <<"t", "t", "v">> ELSE <<"k", "i", "c", "k">>

\* variant: only the forward slash is replaced
safe_title_slash_only(title) ==
    IF IsTruthy(title)
    THEN Slice(replace(title.val, "/", "_"), TITLE_LIMIT)
    ELSE UNKNOWN_TITLE

\* title.replace("/", "_").replace("\\", "_")[:200] if title else "Unknown Title"
safe_title(title) ==
    IF IsTruthy(title)
    THEN Slice(replace(replace(title.val, "/", "_"), "\\", "_"), TITLE_LIMIT)
    ELSE UNKNOWN_TITLE

\* the filename _start_download builds, or the AttributeError of title.replace
BuildFilename(now, platform_name, channel, stream_data) ==
    LET title == GetStreamTitle(platform_name, stream_data)
    IN  IF title.type = "int"
        THEN [raised |-> TRUE, name |-> <<>>]
        ELSE [raised |-> FALSE,
              name |-> strftime(now) \o <<" ">>
                       \o get_platform_shortname(platform_name) \o <<" ">>
                       \o channel \o <<" ">> \o safe_title(title) \o MP4]

\* -------------------------------------------------------- filename inputs
TitleChars == {"A", "/", "\\"}

RECURSIVE TitlesUpTo(_)
TitlesUpTo(n) ==
    IF n = 0 THEN {<<>>}
    ELSE LET shorter == TitlesUpTo(n - 1)
         IN  shorter \cup {Append(t, c) : t \in shorter, c \in TitleChars}

\* the title of n characters that repeats pattern
Cycle(pattern, n) == [i \in 1..n |-> pattern[((i - 1) % Len(pattern)) + 1]]

EXAMPLE_TITLE == <<"A", "/", "B", "\\", "T", "e", "s", "t">>

LongTitles ==
    {Cycle(p, n) : p \in (TitlesUpTo(MaxTitle) \ {<<>>}) \cup {EXAMPLE_TITLE},
                   n \in (TITLE_LIMIT - 1)..(TITLE_LIMIT + MaxOver)}

\* what the platform API reports as the title of a live stream
TwitchTitles == {StrVal(t) : t \in TitlesUpTo(MaxTitle) \cup LongTitles}

KickTitles == TwitchTitles \cup {NoneVal, IntVal, Absent}

Clocks ==
    {[year |-> 2024, month |-> 3, day |-> 1, hour |-> 14, minute |-> 5],
     [year |-> 2025, month |-> 12, day |-> 31, hour |-> 0, minute |-> 0]}

ChannelNames == {<<"f", "o", "o">>, <<"a">>}

StartArgs ==
    {[now |-> c, platform_name |-> "twitch", channel |-> ch, api_title |-> t] :
        c \in Clocks, ch \in ChannelNames, t \in TwitchTitles}
    \cup
    {[now |-> c, platform_name |-> "kick", channel |-> ch, api_title |-> t] :
        c \in Clocks, ch \in ChannelNames, t \in KickTitles}

NoArgs == [now |-> [year |-> 0, month |-> 0, day |-> 0, hour |-> 0, minute |-> 0],
           platform_name |-> "none", channel |-> <<>>, api_title |-> Absent]

NoFilename == [raised |-> FALSE, name |-> <<>>]

\* title.replace raises AttributeError when the title is not a string; the
\* exception leaves _start_download, which has no try around line 319
StartRaises(platform_name, stream_data) ==
    get_stream_title(platform_name, stream_data) = NonStr

NoProbe == [response |-> [kind |-> "none", title |-> None],
            is_live |-> FALSE, stream_data |-> NoStream, log |-> "none"]

\* --------------------------------------------------------- environments
TwitchEnv(token, twitch_channels, kick_channels) ==
    [TWITCH_CLIENT_ID |-> Str(<<"i">>),
     TWITCH_CLIENT_SECRET |-> Str(<<"s">>),
     TWITCH_OAUTH_TOKEN |-> token,
     TWITCH_CHANNELS |-> twitch_channels,
     KICK_CHANNELS |-> kick_channels]

KickEnv(kick_channels) ==
    [TWITCH_CLIENT_ID |-> Unset,
     TWITCH_CLIENT_SECRET |-> Unset,
     TWITCH_OAUTH_TOKEN |-> Unset,
     TWITCH_CHANNELS |-> Unset,
     KICK_CHANNELS |-> kick_channels]

GoodToken == Str(OAUTH_PREFIX \o <<"x">>)
BadToken == Str(<<"x">>)

\* the environments the run loop is explored under
LoopEnvs ==
    {TwitchEnv(GoodToken, Str(<<"a">>), Unset),
     TwitchEnv(GoodToken, Str(<<"a">>), Str(<<"a">>)),
     KickEnv(Str(<<"a", ",", "b">>)),
     KickEnv(Str(<<"a", ",", "a">>)),
     KickEnv(Str(<<",">>)),
     KickEnv(Unset),
     TwitchEnv(BadToken, Str(<<"a">>), Unset)}

\* every environment within the bounds, for the constructor
CredValues == {Unset, Str(<<>>), Str(<<"i">>)}
TokenValues == {Unset, Str(<<>>), GoodToken, BadToken}
ListValues == {Unset} \cup {Str(s) : s \in StrsUpTo(MaxLen)}

AllEnvs ==
    [TWITCH_CLIENT_ID : CredValues,
     TWITCH_CLIENT_SECRET : CredValues,
     TWITCH_OAUTH_TOKEN : TokenValues,
     TWITCH_CHANNELS : ListValues,
     KICK_CHANNELS : ListValues]

\* ------------------------------------------------------------ dict helpers
Put(d, k, v) == [x \in DOMAIN d \cup {k} |-> IF x = k THEN v ELSE d[x]]

\* variant: the whole dict is cleared
RemoveAll(d, k) == [x \in {} |-> 0]

Remove(d, k) == [x \in DOMAIN d \ {k} |-> d[x]]

EmptyDict == [x \in {} |-> 0]

\* no reconciliation of the channel yet
NoHist == [recording |-> FALSE, response |-> "none", title |-> None,
           op |-> "none", terminate |-> "none", exited |-> FALSE, tick |-> 0]

\* --------------------------------------------------------------- Init
ArchiverInit(envs) ==
    /\ env \in envs
    /\ platforms = <<>>
    /\ pc = "init"
    /\ idx = 1
    /\ tick = 0
    /\ probe = NoProbe
    /\ active_downloads = EmptyDict
    /\ proc = EmptyDict
    /\ startCalls = EmptyDict
    /\ terminateCalls = EmptyDict
    /\ logged = "none"
    /\ hist = EmptyDict
    /\ slept = 0
    /\ cancelled = FALSE

InitWith(envs) ==
    /\ ArchiverInit(envs)
    /\ start_args = NoArgs
    /\ filename = NoFilename

Init == InitWith(LoopEnvs)

InitConfig == InitWith(AllEnvs)

\* where a tick starts: the for loops of check_stream_status have no body to
\* run when no channel is configured
TickStart(ps) == IF Flatten(ps) = <<>> THEN "sleep" ELSE "probe"

\* StreamArchiver.__init__
Construct ==
    /\ pc = "init"
    /\ platforms' = _initialize_platforms(env)
    /\ pc' = IF _validate_config(platforms') = "ok"
             THEN "setup" ELSE _validate_config(platforms')
    /\ startCalls' = [k \in KeysOf(platforms') |-> 0]
    /\ terminateCalls' = [k \in KeysOf(platforms') |-> 0]
    /\ hist' = [k \in KeysOf(platforms') |-> NoHist]
    /\ UNCHANGED <<env, idx, tick, probe, active_downloads, proc, logged,
                   slept, cancelled>>
    /\ UNCHANGED <<start_args, filename>>

\* run, up to the loop: setup_platforms; Twitch authentication may raise
Setup ==
    /\ pc = "setup"
    /\ \E ok \in BOOLEAN :
          /\ (~ok) => \E i \in 1..Len(platforms) : platforms[i].name = "twitch"
          /\ pc' = IF ok THEN TickStart(platforms) ELSE "setup_failed"
          /\ tick' = IF ok THEN 1 ELSE tick
    /\ idx' = 1
    /\ UNCHANGED <<env, platforms, probe, active_downloads, proc, startCalls,
                   terminateCalls, logged, hist, slept, cancelled>>
    /\ UNCHANGED <<start_args, filename>>

\* ------------------------------------------------- check_stream_status
CurrentKey == ChannelKey(Channels[idx].platform_name, Channels[idx].channel)

\* await platform.is_stream_live(channel)
Probe ==
    /\ pc = "probe"
    /\ \E r \in Responses(Channels[idx].platform_name) :
          LET res == is_stream_live(Channels[idx].platform_name, r)
          IN  probe' = [response |-> r, is_live |-> res.is_live,
                        stream_data |-> res.stream_data, log |-> res.log]
    /\ pc' = "reconcile"
    /\ UNCHANGED <<env, platforms, idx, tick, active_downloads, proc,
                   startCalls, terminateCalls, logged, hist, slept, cancelled>>
    /\ UNCHANGED <<start_args, filename>>

\* scraper.get has no timeout: the request may never return
ProbeHangs ==
    /\ pc = "probe"
    /\ Channels[idx].platform_name = "kick"
    /\ pc' = "hung"
    /\ UNCHANGED <<env, platforms, idx, tick, probe, active_downloads, proc,
                   startCalls, terminateCalls, logged, hist, slept, cancelled>>
    /\ UNCHANGED <<start_args, filename>>

\* what terminate() can do on a process in the given state
TerminateOutcomes(status) ==
    IF status = "running" THEN {"ok", "OSError"}
    ELSE {"ok", "ProcessLookupError", "OSError"}

Outcomes == {"ok", "ProcessLookupError", "OSError"}

\* variant: except ProcessLookupError only
CaughtLookupOnly(outcome) == outcome = "ProcessLookupError"

\* except (ProcessLookupError, OSError)
Caught(outcome) == outcome \in {"ProcessLookupError", "OSError"}

\* variant: a key that is not tracked stops some tracked download instead
StopDownloadAny(key, outcome) ==
    IF key \in DOMAIN active_downloads
    THEN /\ outcome \in TerminateOutcomes(proc[active_downloads[key]].status)
         /\ terminateCalls' = [terminateCalls EXCEPT ![key] = @ + 1]
         /\ IF outcome = "ok" \/ Caught(outcome)
            THEN /\ active_downloads' = Remove(active_downloads, key)
                 /\ proc' = Remove(proc, active_downloads[key])
            ELSE UNCHANGED <<active_downloads, proc>>
    ELSE IF active_downloads # EmptyDict
         THEN LET other == CHOOSE j \in DOMAIN active_downloads : TRUE
              IN  /\ terminateCalls' = [terminateCalls EXCEPT ![other] = @ + 1]
                  /\ active_downloads' = Remove(active_downloads, other)
                  /\ proc' = Remove(proc, active_downloads[other])
         ELSE UNCHANGED <<active_downloads, proc, terminateCalls>>

\* _stop_download(channel_key), terminate() ending in the given outcome
StopDownload(key, outcome) ==
    IF key \in DOMAIN active_downloads
    THEN /\ outcome \in TerminateOutcomes(proc[active_downloads[key]].status)
         /\ terminateCalls' = [terminateCalls EXCEPT ![key] = @ + 1]
         /\ IF outcome = "ok" \/ Caught(outcome)
            THEN /\ active_downloads' = Remove(active_downloads, key)
                 /\ proc' = Remove(proc, active_downloads[key])
            ELSE UNCHANGED <<active_downloads, proc>>
    ELSE UNCHANGED <<active_downloads, proc, terminateCalls>>

\* terminate() raised an exception that _stop_download does not catch
StopRaises(key, outcome) ==
    key \in DOMAIN active_downloads /\ outcome # "ok" /\ ~Caught(outcome)

\* the pid of a new process
NewPid == CHOOSE n \in 1..(Cardinality(DOMAIN proc) + 1) : n \notin DOMAIN proc

\* variant: the process is created but not stored
SpawnNotStored(downloads, key, pid) == downloads

\* variant: the handle is stored under the channel name alone
SpawnUnderChannel(downloads, key, pid) ==
    Put(downloads, SubSeq(key, 3, Len(key)), pid)

\* self.active_downloads[channel_key] = await create_subprocess_exec(...)
Spawn(downloads, key, pid) == Put(downloads, key, pid)

\* variant: a failed spawn leaves an entry without a process under the key
StartDownloadStale(platform_name, channel, stream_data, spawned, outcome) ==
    LET key == ChannelKey(platform_name, channel)
    IN  /\ startCalls' = [startCalls EXCEPT ![key] = @ + 1]
        /\ IF spawned
           THEN /\ proc' = Put(proc, NewPid,
                               [key |-> key, status |-> "running",
                                title |-> get_stream_title(platform_name, stream_data)])
                /\ active_downloads' = Spawn(active_downloads, key, NewPid)
                /\ UNCHANGED terminateCalls
           ELSE /\ active_downloads' = Put(active_downloads, key, 0)
                /\ UNCHANGED <<proc, terminateCalls>>

\* _start_download(platform_name, platform, channel, stream_data); spawned
\* tells whether create_subprocess_exec returned a process or raised
StartDownload(platform_name, channel, stream_data, spawned, outcome) ==
    LET key == ChannelKey(platform_name, channel)
    IN  /\ startCalls' = [startCalls EXCEPT ![key] = @ + 1]
        /\ IF StartRaises(platform_name, stream_data)
           THEN UNCHANGED <<active_downloads, proc, terminateCalls>>
           ELSE IF spawned
                THEN /\ proc' = Put(proc, NewPid,
                                    [key |-> key, status |-> "running",
                                     title |-> get_stream_title(platform_name,
                                                                stream_data)])
                     /\ active_downloads' = Spawn(active_downloads, key, NewPid)
                     /\ UNCHANGED terminateCalls
                ELSE StopDownload(key, outcome)

\* variant: the check that the key is not yet recorded is missing
ShouldStartAlways(is_live, key, downloads) == is_live

\* variant: a start is made only on the edge from not live to live
ShouldStartOnEdge(is_live, key, downloads) ==
    is_live /\ key \notin DOMAIN downloads /\ hist[key].response \notin {"stream", "playback_url"}

\* variant: a live stream whose title changed is started again
ShouldStartOnNewTitle(is_live, key, downloads) ==
    is_live /\ (key \notin DOMAIN downloads
                \/ proc[downloads[key]].title # probe.stream_data.title)

\* if is_live and channel_key not in self.active_downloads
ShouldStart(is_live, key, downloads) == is_live /\ key \notin DOMAIN downloads

\* elif not is_live and channel_key in self.active_downloads
ShouldStop(is_live, key, downloads) == ~is_live /\ key \in DOMAIN downloads

\* the body of the per-channel try, after the probe returned
ReconcileChannel(platform_name, channel, spawned, outcome) ==
    LET key == ChannelKey(platform_name, channel)
    IN  /\ IF ShouldStart(probe.is_live, key, active_downloads)
           THEN StartDownload(platform_name, channel, probe.stream_data,
                              spawned, outcome)
           ELSE IF ShouldStop(probe.is_live, key, active_downloads)
                THEN StopDownload(key, outcome) /\ UNCHANGED startCalls
                ELSE UNCHANGED <<active_downloads, proc, startCalls,
                                 terminateCalls>>
        \* the logger.error reached: line 296 (an exception reached the
        \* per-channel except), else line 339 (the start failed)
        /\ logged' =
              IF \/ /\ terminateCalls'[key] # terminateCalls[key]
                    /\ StopRaises(key, outcome)
                 \/ /\ startCalls'[key] # startCalls[key]
                    /\ StartRaises(platform_name, probe.stream_data)
              THEN "check_error"
              ELSE IF startCalls'[key] # startCalls[key] /\ ~spawned
                   THEN "start_failed" ELSE "none"
        /\ hist' = [hist EXCEPT ![key] =
              [recording |-> key \in DOMAIN active_downloads,
               response |-> probe.response.kind,
               title |-> probe.response.title,
               tick |-> tick,
               op |-> IF startCalls'[key] # startCalls[key]
                      THEN IF key \in DOMAIN active_downloads'
                              /\ active_downloads'[key] \notin DOMAIN proc
                              /\ active_downloads'[key] \in DOMAIN proc'
                           THEN "start_ok"
                           ELSE IF StartRaises(platform_name, probe.stream_data)
                                THEN "start_raised" ELSE "start_failed"
                      ELSE IF terminateCalls'[key] # terminateCalls[key]
                           THEN "stop" ELSE "noop",
               terminate |-> IF terminateCalls'[key] # terminateCalls[key]
                             THEN outcome ELSE "none",
               exited |-> /\ key \in DOMAIN active_downloads
                          /\ proc[active_downloads[key]].status = "exited"]]

\* variant: the per-channel except logs the exception and raises it again
ReconcileReraises ==
    /\ pc = "reconcile"
    /\ \E spawned \in BOOLEAN, outcome \in Outcomes :
          ReconcileChannel(Channels[idx].platform_name, Channels[idx].channel,
                           spawned, outcome)
    /\ IF logged' = "check_error"
       THEN idx' = idx /\ pc' = "backoff"
       ELSE IF idx < Len(Channels)
            THEN idx' = idx + 1 /\ pc' = "probe"
            ELSE idx' = idx /\ pc' = "sleep"
    /\ probe' = NoProbe
    /\ UNCHANGED <<env, platforms, tick, slept, cancelled>>
    /\ UNCHANGED <<start_args, filename>>

\* one iteration of the for loops of check_stream_status, after the probe
Reconcile ==
    /\ pc = "reconcile"
    /\ \E spawned \in BOOLEAN, outcome \in Outcomes :
          ReconcileChannel(Channels[idx].platform_name, Channels[idx].channel,
                           spawned, outcome)
    /\ IF idx < Len(Channels)
       THEN idx' = idx + 1 /\ pc' = "probe"
       ELSE idx' = idx /\ pc' = "sleep"
    /\ probe' = NoProbe
    /\ UNCHANGED <<env, platforms, tick, slept, cancelled>>
    /\ UNCHANGED <<start_args, filename>>

\* ----------------------------------------------------------------- run
\* variant: check_stream_status is scheduled without being awaited, the sleep
\* starts while channels are still waiting for their turn
SleepEarly ==
    /\ pc \in {"sleep", "probe"}
    /\ tick < MaxTicks
    /\ slept' = check_interval
    /\ tick' = tick + 1
    /\ idx' = 1
    /\ pc' = TickStart(platforms)
    /\ startCalls' = [k \in DOMAIN startCalls |-> 0]
    /\ terminateCalls' = [k \in DOMAIN terminateCalls |-> 0]
    /\ UNCHANGED <<env, platforms, probe, active_downloads, proc, logged,
                   hist, cancelled>>
    /\ UNCHANGED <<start_args, filename>>

\* await asyncio.sleep(self.check_interval), then the next iteration
Sleep ==
    /\ pc = "sleep"
    /\ tick < MaxTicks
    /\ slept' = check_interval
    /\ tick' = tick + 1
    /\ idx' = 1
    /\ pc' = TickStart(platforms)
    /\ startCalls' = [k \in DOMAIN startCalls |-> 0]
    /\ terminateCalls' = [k \in DOMAIN terminateCalls |-> 0]
    /\ UNCHANGED <<env, platforms, probe, active_downloads, proc, logged,
                   hist, cancelled>>
    /\ UNCHANGED <<start_args, filename>>

\* variant: the exception is not caught and leaves run
TickErrorEscapes ==
    /\ pc \in {"probe", "reconcile", "sleep"}
    /\ logged' = "main_loop"
    /\ pc' = "crashed"
    /\ probe' = NoProbe
    /\ UNCHANGED <<env, platforms, idx, tick, active_downloads, proc,
                   startCalls, terminateCalls, hist, slept, cancelled>>
    /\ UNCHANGED <<start_args, filename>>

\* an Exception escapes check_stream_status or the sleep: except Exception
TickError ==
    /\ pc \in {"probe", "reconcile", "sleep"}
    /\ logged' = "main_loop"
    /\ pc' = "backoff"
    /\ probe' = NoProbe
    /\ UNCHANGED <<env, platforms, idx, tick, active_downloads, proc,
                   startCalls, terminateCalls, hist, slept, cancelled>>
    /\ UNCHANGED <<start_args, filename>>

\* await asyncio.sleep(5), then the next iteration
Backoff ==
    /\ pc = "backoff"
    /\ tick < MaxTicks
    /\ slept' = ERROR_BACKOFF
    /\ tick' = tick + 1
    /\ idx' = 1
    /\ pc' = TickStart(platforms)
    /\ startCalls' = [k \in DOMAIN startCalls |-> 0]
    /\ terminateCalls' = [k \in DOMAIN terminateCalls |-> 0]
    /\ UNCHANGED <<env, platforms, probe, active_downloads, proc, logged,
                   hist, cancelled>>
    /\ UNCHANGED <<start_args, filename>>

\* run is cancelled (CancelledError / KeyboardInterrupt are not Exceptions):
\* the exception leaves the while loop, nothing else runs
Cancel ==
    /\ pc \in {"probe", "reconcile", "hung", "sleep", "backoff"}
    /\ pc' = "exited"
    /\ cancelled' = TRUE
    /\ UNCHANGED <<env, platforms, idx, tick, probe, active_downloads, proc,
                   startCalls, terminateCalls, logged, hist, slept>>
    /\ UNCHANGED <<start_args, filename>>

\* a streamlink process ends on its own
ProcessExits ==
    /\ pc \in {"probe", "reconcile", "hung", "sleep", "backoff"}
    /\ \E pid \in DOMAIN proc :
          /\ proc[pid].status = "running"
          /\ proc' = [proc EXCEPT ![pid].status = "exited"]
    /\ UNCHANGED <<env, platforms, pc, idx, tick, probe, active_downloads,
                   startCalls, terminateCalls, logged, hist, slept, cancelled>>
    /\ UNCHANGED <<start_args, filename>>

Next ==
    \/ Construct
    \/ Setup
    \/ Probe
    \/ ProbeHangs
    \/ Reconcile
    \/ Sleep
    \/ TickError
    \/ Backoff
    \/ Cancel
    \/ ProcessExits

Spec == Init /\ [][Next]_vars

\* the constructor alone, over every environment within the bounds
NextConfig == Construct

ConfigSpec == InitConfig /\ [][NextConfig]_vars

\* ------------------------------------------------- the loop without end
\* while True has no last tick: past MaxTicks the loop goes on, only the
\* number of the tick is no longer counted
SleepOn ==
    /\ pc = "sleep"
    /\ tick = MaxTicks
    /\ slept' = check_interval
    /\ idx' = 1
    /\ pc' = TickStart(platforms)
    /\ startCalls' = [k \in DOMAIN startCalls |-> 0]
    /\ terminateCalls' = [k \in DOMAIN terminateCalls |-> 0]
    /\ UNCHANGED <<env, platforms, tick, probe, active_downloads, proc, logged,
                   hist, cancelled, start_args, filename>>

BackoffOn ==
    /\ pc = "backoff"
    /\ tick = MaxTicks
    /\ slept' = ERROR_BACKOFF
    /\ idx' = 1
    /\ pc' = TickStart(platforms)
    /\ startCalls' = [k \in DOMAIN startCalls |-> 0]
    /\ terminateCalls' = [k \in DOMAIN terminateCalls |-> 0]
    /\ UNCHANGED <<env, platforms, tick, probe, active_downloads, proc, logged,
                   hist, cancelled, start_args, filename>>

LiveEnvs ==
    {TwitchEnv(GoodToken, Str(<<"a">>), Unset),
     KickEnv(Str(<<"a">>))}

InitLive == InitWith(LiveEnvs)

NextLive ==
    \/ Next
    \/ SleepOn
    \/ BackoffOn

\* the event loop runs every step of run that is ready: the constructor and
\* setup, a probe that answers, the reconciliation after it, and the sleeps
\* return
LiveSpec ==
    /\ InitLive
    /\ [][NextLive]_vars
    /\ WF_vars(Construct)
    /\ WF_vars(Setup)
    /\ WF_vars(Probe)
    /\ WF_vars(Reconcile)
    /\ WF_vars(Sleep)
    /\ WF_vars(SleepOn)
    /\ WF_vars(Backoff)
    /\ WF_vars(BackoffOn)

\* ------------------------------------------------------ filename building
\* one _start_download call for a live stream, up to the filename (lines
\* 316-323); the archiver is left as constructed
InitFilename ==
    /\ ArchiverInit({KickEnv(Unset)})
    /\ start_args \in StartArgs
    /\ filename = NoFilename

MakeFilename ==
    /\ start_args # NoArgs
    /\ filename = NoFilename
    /\ filename' = BuildFilename(start_args.now, start_args.platform_name,
                                 start_args.channel,
                                 StreamData(start_args.platform_name,
                                            start_args.channel,
                                            start_args.api_title))
    /\ UNCHANGED <<env, platforms, pc, idx, tick, probe, active_downloads,
                   proc, startCalls, terminateCalls, logged, hist, slept,
                   cancelled, start_args>>

NextFilename == MakeFilename

FilenameSpec == InitFilename /\ [][NextFilename]_vars

\* ===================================================================
\* Properties
\* ===================================================================
Recording(k) == k \in DOMAIN active_downloads

\* the step is the reconciliation of the current channel
ReconcileStep == pc = "reconcile" /\ pc' \in {"probe", "sleep"}

LiveKinds == {"stream", "playback_url"}

NotLiveKinds == {"no_user", "no_stream", "no_data", "no_playback_url"}

LoopPcs == {"probe", "reconcile", "hung", "sleep", "backoff"}

AtMostOneProcessPerKey ==
    \A k \in DOMAIN hist :
        Cardinality({p \in DOMAIN proc : proc[p].key = k}) <= 1

\* C1: every channel key has at most one recording process that has not been
\* handed to the stop path, and _start_download is never invoked for a key
\* that is present in active_downloads.
C1_OneRecordingPerKey ==
    /\ []AtMostOneProcessPerKey
    /\ [][\A k \in DOMAIN startCalls :
             (k \in DOMAIN startCalls' /\ startCalls'[k] > startCalls[k])
                 => ~Recording(k)]_vars

\* a live probe was reconciled for a channel that was already recording
C1_Witness ==
    \E k \in DOMAIN hist :
        /\ hist[k].recording
        /\ hist[k].response \in LiveKinds
        /\ Recording(k)
        /\ Cardinality({p \in DOMAIN proc : proc[p].key = k}) = 1

\* C2: a tick whose probe fails while the channel is Recording leaves the
\* channel Recording and invokes neither start nor stop.
C2_ProbeErrorKeepsRecording ==
    \A k \in DOMAIN hist :
        (hist[k].recording /\ hist[k].response = "exception")
            => (hist[k].op = "noop" /\ Recording(k))

\* C3: when run has been cancelled, every channel that was Recording has been
\* stopped before the loop exits.
C3_ShutdownStopsRecordings ==
    pc = "exited" => DOMAIN active_downloads = {}

\* C4: for an Idle channel a live probe invokes start exactly once, and a
\* successful spawn leaves the channel Recording with the new process as its
\* handle; a live probe for a Recording channel invokes start zero times.
C4_StartExactlyOnce ==
    [][(ReconcileStep /\ probe.is_live) =>
          LET k == CurrentKey
          IN  IF ~Recording(k)
              THEN /\ startCalls'[k] = startCalls[k] + 1
                   /\ \A j \in DOMAIN startCalls \ {k} : startCalls'[j] = startCalls[j]
                   /\ (DOMAIN proc' # DOMAIN proc) =>
                         /\ k \in DOMAIN active_downloads'
                         /\ active_downloads'[k] \in DOMAIN proc' \ DOMAIN proc
                         /\ proc'[active_downloads'[k]].key = k
              ELSE /\ startCalls' = startCalls
                   /\ active_downloads' = active_downloads
                   /\ proc' = proc]_vars

\* an Idle channel went to Recording through one start
C4_Witness ==
    \E k \in DOMAIN hist :
        /\ ~hist[k].recording
        /\ hist[k].op = "start_ok"
        /\ startCalls[k] = 1
        /\ Recording(k)

\* C5: for a Recording channel a probe that succeeds with is_live = false
\* calls terminate exactly once and removes the handle, whatever terminate
\* does (also ProcessLookupError and OSError), and no exception leaves
\* _stop_download.
C5_StopAlwaysRemoves ==
    [][(ReconcileStep /\ ~probe.is_live /\ ~ProbeFailed(probe.response)
          /\ Recording(CurrentKey)) =>
          LET k == CurrentKey
          IN  /\ terminateCalls'[k] = terminateCalls[k] + 1
              /\ k \notin DOMAIN active_downloads'
              /\ active_downloads[k] \notin DOMAIN proc'
              /\ logged' # "check_error"
              /\ startCalls' = startCalls]_vars

\* a recording whose process had already exited was stopped, terminate
\* raising ProcessLookupError
C5_Witness ==
    \E k \in DOMAIN hist :
        /\ hist[k].op = "stop"
        /\ hist[k].response \in NotLiveKinds
        /\ hist[k].exited
        /\ hist[k].terminate = "ProcessLookupError"
        /\ ~Recording(k)

\* C6: a failed spawn records no handle and leaves the channel Idle, and a
\* live probe for a channel whose last start failed invokes start again,
\* once.
C6_StartFailureRetried ==
    /\ [](\A k \in DOMAIN hist : hist[k].op = "start_failed" => ~Recording(k))
    /\ [][ReconcileStep =>
             LET k == CurrentKey
             IN  /\ (logged' = "start_failed") =>
                       /\ active_downloads' = active_downloads
                       /\ proc' = proc
                       /\ terminateCalls' = terminateCalls
                       /\ startCalls'[k] = startCalls[k] + 1
                 /\ (hist[k].op = "start_failed" /\ probe.is_live) =>
                       startCalls'[k] = startCalls[k] + 1]_vars

\* the start of the last tick failed and the probe of this tick is live again
C6_Witness ==
    /\ pc = "reconcile"
    /\ probe.is_live
    /\ hist[CurrentKey].op = "start_failed"
    /\ ~Recording(CurrentKey)
    /\ tick >= 2

\* C7: a tick whose probe fails while the channel is Idle leaves the channel
\* Idle and invokes neither start nor stop.
C7_ProbeErrorKeepsIdle ==
    [][(ReconcileStep /\ ProbeFailed(probe.response) /\ ~Recording(CurrentKey)) =>
          /\ active_downloads' = active_downloads
          /\ proc' = proc
          /\ startCalls' = startCalls
          /\ terminateCalls' = terminateCalls
          /\ hist'[CurrentKey].op = "noop"]_vars

\* the probe of an Idle channel failed
C7_Witness ==
    \E k \in DOMAIN hist :
        /\ ~hist[k].recording
        /\ hist[k].response = "exception"
        /\ hist[k].op = "noop"
        /\ ~Recording(k)

\* C8: while the probe of one channel has not returned, the channels after it
\* in the tick can still be probed and reconciled.
C8_HungProbeDoesNotStall ==
    (pc = "hung" /\ idx < Len(Channels)) => ENABLED (Probe \/ Reconcile)

\* C9: the loop is left only by cancellation, and after an error the loop
\* sleeps the backoff of 5 and starts another tick.
C9_LoopOnlyEndsByCancel ==
    [][/\ (pc \in LoopPcs /\ pc' \notin LoopPcs) => cancelled'
       /\ (pc = "backoff" /\ pc' # "backoff" /\ ~cancelled') =>
             /\ slept' = ERROR_BACKOFF
             /\ tick' = tick + 1
             /\ idx' = 1
             /\ pc' = TickStart(platforms)]_vars

\* a tick that was started by the backoff after an error
C9_Witness ==
    /\ slept = ERROR_BACKOFF
    /\ tick >= 2
    /\ pc = "probe"
    /\ idx = 1
    /\ ~cancelled

\* C10: a constructor that returns monitors at least one (platform, channel)
\* pair, and a configured Twitch platform whose token lacks the 'oauth:'
\* prefix is rejected.
C10_NoStartWithoutChannels ==
    pc = "setup" =>
        /\ KeysOf(platforms) # {}
        /\ ~(TwitchConfigured(env)
             /\ ~startswith(env.TWITCH_OAUTH_TOKEN.val, OAUTH_PREFIX))

\* C11: two distinct channels that both go live in one tick and whose starts
\* both succeed are both Recording when the tick ends, each under its own key
\* with a handle of its own: every recorded handle is the process spawned for
\* that key, and no two keys hold the same handle.
C11_IndependentHandles ==
    /\ \A k \in DOMAIN active_downloads :
          /\ k \in DOMAIN hist
          /\ active_downloads[k] \in DOMAIN proc
          /\ proc[active_downloads[k]].key = k
    /\ \A k1, k2 \in DOMAIN active_downloads :
          k1 # k2 => active_downloads[k1] # active_downloads[k2]
    /\ pc = "sleep" =>
          \A k \in DOMAIN hist :
             (hist[k].tick = tick /\ hist[k].op = "start_ok") => Recording(k)

\* both channels of one tick went from Idle to Recording
C11_Witness ==
    /\ pc = "sleep"
    /\ \E k1, k2 \in DOMAIN hist :
          /\ k1 # k2
          /\ \A k \in {k1, k2} :
                /\ hist[k].tick = tick
                /\ ~hist[k].recording
                /\ hist[k].response \in LiveKinds
                /\ hist[k].op = "start_ok"
                /\ Recording(k)
          /\ active_downloads[k1] # active_downloads[k2]

\* the key of the i-th configured channel
KeyAt(i) == ChannelKey(Channels[i].platform_name, Channels[i].channel)

\* whether a channel is tracked after the reconciliation h recorded
Committed(h) ==
    IF h.op = "start_ok" THEN TRUE
    ELSE IF h.op = "stop" THEN FALSE
    ELSE h.recording

\* C12: ticks are strictly ordered.  The tracked state of a channel is always
\* the outcome of its last reconciliation, a channel is probed in a tick only
\* after the channels before it were reconciled in that tick and while its own
\* last reconciliation belongs to an earlier tick, and the sleep of
\* check_interval starts only when every configured channel has been
\* reconciled in the tick and no probe is pending.
C12_TicksOrdered ==
    /\ [](pc \in LoopPcs =>
             \A k \in DOMAIN hist :
                /\ hist[k].tick <= tick
                /\ Recording(k) = Committed(hist[k]))
    /\ [][/\ (pc = "probe" /\ pc' = "reconcile") =>
                /\ \A i \in 1..(idx - 1) : hist[KeyAt(i)].tick = tick
                /\ \A k \in DOMAIN hist \ {KeyAt(i) : i \in 1..(idx - 1)} :
                      hist[k].tick < tick
          /\ (pc = "sleep" /\ tick' # tick) =>
                /\ probe = NoProbe
                /\ \A k \in DOMAIN hist : hist[k].tick = tick
                /\ slept' = check_interval
                /\ tick' = tick + 1
                /\ idx' = 1
          /\ (pc \in LoopPcs /\ tick' # tick) => pc \in {"sleep", "backoff"}]_vars

\* a channel started in one tick is probed in the next tick, after the sleep
C12_Witness ==
    /\ pc = "reconcile"
    /\ tick >= 2
    /\ slept = check_interval
    /\ hist[CurrentKey].tick = tick - 1
    /\ hist[CurrentKey].op = "start_ok"
    /\ Recording(CurrentKey)
    /\ Len(Channels) >= 2

\* the number a string of digits denotes
RECURSIVE Number(_)
Number(s) ==
    IF s = <<>> THEN 0
    ELSE 10 * Number(SubSeq(s, 1, Len(s) - 1))
         + (CHOOSE d \in 0..9 : Digits[d + 1] = s[Len(s)])

\* the shortname a filename carries for a platform
Shortname(platform_name) ==
    IF platform_name = "twitch" THEN <<"t", "t", "v">> ELSE <<"k", "i", "c", "k">>

\* length of "{timestamp} {shortname} {channel} " for a call
PrefixLen(a) == 16 + 1 + Len(Shortname(a.platform_name)) + 1 + Len(a.channel) + 1

\* the title characters of a filename built for the call a
TitlePart(a, name) == SubSeq(name, PrefixLen(a) + 1, Len(name) - 4)

\* the name is "{YYYY-MM-DD HH:MM} {shortname} {channel} {...}.mp4" for call a
WellFormed(a, name) ==
    /\ Len(name) >= PrefixLen(a) + 4
    /\ Number(SubSeq(name, 1, 4)) = a.now.year
    /\ name[5] = "-"
    /\ Number(SubSeq(name, 6, 7)) = a.now.month
    /\ name[8] = "-"
    /\ Number(SubSeq(name, 9, 10)) = a.now.day
    /\ name[11] = " "
    /\ Number(SubSeq(name, 12, 13)) = a.now.hour
    /\ name[14] = ":"
    /\ Number(SubSeq(name, 15, 16)) = a.now.minute
    /\ name[17] = " "
    /\ SubSeq(name, 18, PrefixLen(a) - 1)
          = Shortname(a.platform_name) \o <<" ">> \o a.channel
    /\ name[PrefixLen(a)] = " "
    /\ SubSeq(name, Len(name) - 3, Len(name)) = <<".", "m", "p", "4">>

\* t is title with every separator replaced by '_', cut to TITLE_LIMIT
Sanitized(title, t) ==
    /\ Len(t) = IF Len(title) <= TITLE_LIMIT THEN Len(title) ELSE TITLE_LIMIT
    /\ \A i \in 1..Len(t) :
          t[i] = IF title[i] \in {"/", "\\"} THEN "_" ELSE title[i]

\* C13: the filename is "{timestamp YYYY-MM-DD HH:MM} {platform shortname}
\* {channel} {sanitized title}.mp4", the sanitized title being the title with
\* every '/' and '\' replaced by '_' and cut to at most 200 characters, and
\* "Unknown Title" when the platform reports no title (the title is absent,
\* None or empty).
C13_FilenameFormat ==
    (filename # NoFilename /\ ~filename.raised) =>
        LET a == start_args
            t == TitlePart(a, filename.name)
        IN  /\ WellFormed(a, filename.name)
            /\ IF a.api_title.type = "str" /\ a.api_title.val # <<>>
               THEN Sanitized(a.api_title.val, t)
               ELSE t = <<"U", "n", "k", "n", "o", "w", "n", " ",
                          "T", "i", "t", "l", "e">>

\* C13 (amended): as C13, but "Unknown Title" is used when the title is None
\* or empty; a Kick response without session_title is named after the title
\* "Kick Stream - {channel}".
C13_FilenameFormatAmended ==
    (filename # NoFilename /\ ~filename.raised) =>
        LET a == start_args
            t == TitlePart(a, filename.name)
        IN  /\ WellFormed(a, filename.name)
            /\ IF a.api_title.type = "str" /\ a.api_title.val # <<>>
               THEN Sanitized(a.api_title.val, t)
               ELSE IF a.api_title.type = "absent"
               THEN Sanitized(<<"K", "i", "c", "k", " ", "S", "t", "r", "e",
                                "a", "m", " ", "-", " ">> \o a.channel, t)
               ELSE t = <<"U", "n", "k", "n", "o", "w", "n", " ",
                          "T", "i", "t", "l", "e">>

\* the title A/B\Test... of 210 characters on ttv foo at 2024-03-01 14:05
C13_Witness ==
    /\ start_args.api_title = StrVal(Cycle(EXAMPLE_TITLE, 210))
    /\ filename.name =
          <<"2", "0", "2", "4", "-", "0", "3", "-", "0", "1", " ",
            "1", "4", ":", "0", "5", " ", "t", "t", "v", " ", "f", "o", "o", " ">>
          \o Cycle(<<"A", "_", "B", "_", "T", "e", "s", "t">>, 200)
          \o <<".", "m", "p", "4">>

\* C14: a Twitch lookup that finds no identity for the channel is a successful
\* not-live result: it is reported with a warning and no probe error, and the
\* loop handles it as offline - a Recording channel is stopped, an Idle
\* channel is left alone, nothing is started.
C14_NoIdentityIsOffline ==
    /\ [](probe.response.kind = "no_user" =>
             /\ ~probe.is_live
             /\ probe.stream_data = NoStream
             /\ probe.log = "warning")
    /\ [][(ReconcileStep /\ probe.response.kind = "no_user") =>
             LET k == CurrentKey
             IN  /\ startCalls' = startCalls
                 /\ logged' = "none"
                 /\ IF Recording(k)
                    THEN /\ active_downloads' = Remove(active_downloads, k)
                         /\ terminateCalls'[k] = terminateCalls[k] + 1
                    ELSE UNCHANGED <<active_downloads, proc, terminateCalls>>]_vars

\* a Recording Twitch channel whose user was not found was stopped
C14_Witness ==
    \E k \in DOMAIN hist :
       /\ hist[k].response = "no_user"
       /\ hist[k].recording
       /\ hist[k].op = "stop"
       /\ ~Recording(k)

\* the channels of LiveEnvs
LiveKeys == {ChannelKey("twitch", <<"a">>), ChannelKey("kick", <<"a">>)}

\* the run loop keeps running: setup succeeded, no cancellation, no probe
\* that never answers, no error that ends a tick early
LoopRuns == pc \in {"probe", "reconcile", "sleep"} /\ logged # "main_loop"

\* a probe of channel k that has answered reports a live stream
ProbesLive(k) == (pc = "reconcile" /\ CurrentKey = k) => probe.is_live

\* the last _start_download of channel k, if any, did not fail
StartNotFailed(k) ==
    k \in DOMAIN hist /\ hist[k].op \notin {"start_failed", "start_raised"}

\* C15: the loop is level-triggered and self-healing.  If from some tick on
\* the loop keeps running, every probe of a channel reports a live stream and
\* starting does not fail forever, the channel eventually becomes Recording,
\* whatever failed before.
C15_EventuallyRecording ==
    \A k \in LiveKeys :
       (/\ <>[](k \in DOMAIN hist /\ LoopRuns /\ ProbesLive(k))
        /\ []<>StartNotFailed(k))
       => <>Recording(k)

\* a channel that is Recording in a tick that follows a main-loop error
C15_Witness ==
    /\ pc = "sleep"
    /\ tick = MaxTicks
    /\ slept = ERROR_BACKOFF
    /\ \E k \in LiveKeys :
          /\ k \in DOMAIN hist
          /\ ~hist[k].recording
          /\ hist[k].op = "start_ok"
          /\ Recording(k)

\* C16: an Idle channel whose probe is not live and a Recording channel whose
\* probe is live are left as they are: nothing is started or stopped, and the
\* handle and the title it was started with are not replaced, whatever title
\* the probe carries.
C16_NoOps ==
    [][(/\ ReconcileStep
        /\ \/ ~probe.is_live /\ ~Recording(CurrentKey)
           \/ probe.is_live /\ Recording(CurrentKey)) =>
          UNCHANGED <<active_downloads, proc, startCalls, terminateCalls>>]_vars

\* a Recording channel was probed live with a title other than the one its
\* recording was started with
C16_Witness ==
    \E k \in DOMAIN hist :
       /\ hist[k].recording
       /\ hist[k].response \in LiveKinds
       /\ hist[k].op = "noop"
       /\ Recording(k)
       /\ proc[active_downloads[k]].title # hist[k].title

\* C17: reconciling one channel changes the tracked state of that channel
\* only: every other key keeps its entry, its handle and its process, and no
\* start or terminate is made for it.
C17_OtherChannelsUntouched ==
    [][ReconcileStep =>
          \A j \in DOMAIN hist \ {CurrentKey} :
             /\ Recording(j) <=> j \in DOMAIN active_downloads'
             /\ Recording(j) =>
                   /\ active_downloads'[j] = active_downloads[j]
                   /\ active_downloads[j] \in DOMAIN proc'
                   /\ proc'[active_downloads[j]] = proc[active_downloads[j]]
             /\ startCalls'[j] = startCalls[j]
             /\ terminateCalls'[j] = terminateCalls[j]
             /\ hist'[j] = hist[j]]_vars

\* channel A was stopped in this tick while channel B, not yet reconciled in
\* this tick, is Recording since an earlier tick
C17_Witness ==
    \E A, B \in DOMAIN hist :
       /\ A # B
       /\ hist[A].tick = tick
       /\ hist[A].op = "stop"
       /\ ~Recording(A)
       /\ hist[B].tick = tick - 1
       /\ hist[B].op \in {"start_ok", "noop"}
       /\ Recording(B)
       /\ terminateCalls[B] = 0

\* C18: a start that fails to spawn mutates nothing and stops nothing: the
\* _stop_download of the failure path finds no entry for the channel,
\* terminate is called on no process, and active_downloads and every tracked
\* process are what they were before the attempt.
C18_FailedStartChangesNothing ==
    [][(ReconcileStep /\ logged' = "start_failed") =>
          /\ probe.is_live
          /\ CurrentKey \notin DOMAIN active_downloads
          /\ hist'[CurrentKey].terminate = "none"
          /\ \A j \in DOMAIN terminateCalls :
                terminateCalls'[j] = terminateCalls[j]
          /\ UNCHANGED <<active_downloads, proc>>]_vars

\* a start failed while another channel was Recording, which it still is
C18_Witness ==
    /\ logged = "start_failed"
    /\ \E k, j \in DOMAIN hist :
          /\ k # j
          /\ hist[k].op = "start_failed"
          /\ hist[k].tick = tick
          /\ ~Recording(k)
          /\ Recording(j)
          /\ proc[active_downloads[j]].status = "running"

\* C19: an exception raised while one channel is reconciled (here: building
\* the filename from a title that is not a string) is caught at that channel:
\* it is logged as a check error, the next channel is probed in the same tick,
\* and the tick ends with the sleep of check_interval, not the backoff.
C19_ChannelErrorIsolated ==
    /\ [](logged = "check_error" => pc # "backoff")
    /\ [][/\ (/\ pc = "reconcile"
              /\ startCalls' # startCalls
              /\ StartRaises(Channels[idx].platform_name, probe.stream_data)) =>
                /\ logged' = "check_error"
                /\ UNCHANGED <<active_downloads, proc, terminateCalls, tick, slept>>
                /\ IF idx < Len(Channels)
                   THEN idx' = idx + 1 /\ pc' = "probe"
                   ELSE idx' = idx /\ pc' = "sleep"
          /\ (logged = "check_error" /\ tick' # tick) =>
                /\ pc = "sleep"
                /\ slept' = check_interval]_vars

\* the start of the first channel raised in the last tick; the second channel
\* was reconciled in that tick all the same and the tick ended with the
\* regular sleep
C19_Witness ==
    /\ pc = "probe"
    /\ idx = 1
    /\ tick >= 2
    /\ slept = check_interval
    /\ Len(Channels) >= 2
    /\ KeyAt(1) # KeyAt(2)
    /\ hist[KeyAt(1)].op = "start_raised"
    /\ \A k \in DOMAIN hist : hist[k].tick = tick - 1

\* C20: a handle is removed only by the stop path, and the stop path is
\* entered only after a probe that answered not live; a process that ended on
\* its own while the probes are live leaves the channel Recording and is not
\* started again.
C20_HandleRemovedOnlyAfterNotLive ==
    \A k \in DOMAIN hist :
       /\ (hist[k].recording /\ ~Recording(k)) => hist[k].op = "stop"
       /\ hist[k].op = "stop" => hist[k].response \in NotLiveKinds
       /\ (hist[k].recording /\ hist[k].response \in LiveKinds) =>
             (hist[k].op = "noop" /\ Recording(k))

====
